---- MODULE Spec2Model ----
(***************************************************************************)
(* ArucoReader: a two-screen React Native application.                     *)
(*                                                                         *)
(*   HomeScreen  takes a photo, uploads it to the marker-detection service *)
(*               and keeps the processed image and the dimensions the      *)
(*               service returned (src/unnamed/part_000, lines 18-169).    *)
(*   FormScreen  receives those dimensions as route parameters and         *)
(*               computes the number of light fixtures and their positions *)
(*               (src/unnamed/part_000, lines 239-300).                    *)
(*                                                                         *)
(* Two specifications share the variables: SpecForm is the Form screen     *)
(* mounted with the dimensions of its route parameters, SpecHome is the    *)
(* Home screen with its asynchronous camera and upload operations.         *)
(*                                                                         *)
(* JavaScript numbers are modelled as exact rationals together with NaN    *)
(* and the two infinities; the rounding of IEEE-754 doubles is not         *)
(* modelled.  Text fields are sequences of one-character strings.          *)
(***************************************************************************)
EXTENDS Integers, Sequences, FiniteSets, TLC

VARIABLES
    \* HomeScreen (useState, lines 23-35)
    hasCameraPermission, image, processingImage, imageDimensions,
    error, showProcessed, loading,
    \* HomeScreen: asynchronous operations in flight
    capturing,      \* calls of takePictureAsync not yet settled (line 55)
    requests,       \* every axios.post started by processImage (line 80)
    photosTaken,    \* photos the camera has delivered so far
    processCalls,   \* history: invocations of processImage
    \* navigation (App.jsx, line 23; route.params, line 242)
    screen, dimensions,
    \* FormScreen (useState, lines 245-248)
    lumens, luxes, focusCount, distances,
    alertShown,     \* the dialog of Alert.alert (line 264) is on screen
    calc            \* history: the inputs of the last Calculate that passed validation

homeVars == <<hasCameraPermission, image, processingImage, imageDimensions,
              error, showProcessed, loading, capturing, requests,
              photosTaken, processCalls>>
navVars == <<screen, dimensions>>
formVars == <<lumens, luxes, focusCount, distances, alertShown, calc>>
vars == <<homeVars, navVars, formVars>>

-----------------------------------------------------------------------------
(* Bounds of the model *)

\* Widths and heights the service returns range over -1, 0, 1 .. MaxDim.
MaxDim == 4
\* The camera delivers at most MaxPhotos photos.
MaxPhotos == 2
\* processImage is invoked at most MaxRequests times.
MaxRequests == 2
\* At most MaxCaptures calls of takePictureAsync are pending at a time.
MaxCaptures == 1

-----------------------------------------------------------------------------
(* JavaScript numbers: exact rationals n/d in lowest terms, NaN, +-Infinity *)

RECURSIVE GCD(_, _)
GCD(a, b) == IF b = 0 THEN a ELSE GCD(b, a % b)

Abs(i) == IF i < 0 THEN -i ELSE i
Sgn(i) == IF i < 0 THEN -1 ELSE IF i > 0 THEN 1 ELSE 0

NaN == [k |-> "NaN", n |-> 0, d |-> 1]
Undefined == [k |-> "undefined", n |-> 0, d |-> 1]
Null == [k |-> "null", n |-> 0, d |-> 1]
Inf(s) == [k |-> "Inf", n |-> s, d |-> 1]
Fin(n, d) ==
    LET g == GCD(Abs(n), d)
    IN  [k |-> "Fin", n |-> n \div g, d |-> d \div g]
IntNum(i) == Fin(i, 1)
Zero == IntNum(0)
Two == IntNum(2)

IsFin(a) == a.k = "Fin"
IsInf(a) == a.k = "Inf"
\* isNaN(x): undefined converts to NaN
IsNaN(a) == a.k \notin {"Fin", "Inf"}

\* a * b
Mul(a, b) ==
    IF IsNaN(a) \/ IsNaN(b) THEN NaN
    ELSE IF IsInf(a) \/ IsInf(b)
         THEN IF a.n = 0 \/ b.n = 0 THEN NaN ELSE Inf(Sgn(a.n) * Sgn(b.n))
         ELSE Fin(a.n * b.n, a.d * b.d)

\* a / b  (the sign of a zero is not tracked: x / 0 takes the sign of x)
Div(a, b) ==
    IF IsNaN(a) \/ IsNaN(b) THEN NaN
    ELSE IF IsInf(a)
         THEN IF IsInf(b) THEN NaN
              ELSE Inf(a.n * (IF b.n < 0 THEN -1 ELSE 1))
    ELSE IF IsInf(b) THEN Zero
    ELSE IF b.n = 0
         THEN IF a.n = 0 THEN NaN ELSE Inf(Sgn(a.n))
         ELSE Fin(a.n * b.d * Sgn(b.n), a.d * Abs(b.n))

\* a + b
Add(a, b) ==
    IF IsNaN(a) \/ IsNaN(b) THEN NaN
    ELSE IF IsInf(a)
         THEN IF IsInf(b) /\ b.n # a.n THEN NaN ELSE a
    ELSE IF IsInf(b) THEN b
    ELSE Fin(a.n * b.d + b.n * a.d, a.d * b.d)

\* a <= b  (false when either is NaN)
Le(a, b) ==
    IF IsNaN(a) \/ IsNaN(b) THEN FALSE
    ELSE IF IsInf(a) THEN a.n = -1 \/ (IsInf(b) /\ b.n = 1)
    ELSE IF IsInf(b) THEN b.n = 1
    ELSE a.n * b.d <= b.n * a.d

\* a < b  (false when either is NaN)
Lt(a, b) == Le(a, b) /\ ~Le(b, a)

\* Math.ceil(a)
Ceil(a) == IF IsFin(a) THEN IntNum(-((-a.n) \div a.d)) ELSE a

RECURSIVE CeilSqrtFrom(_, _, _)
CeilSqrtFrom(c, n, d) == IF c * c * d >= n THEN c ELSE CeilSqrtFrom(c + 1, n, d)

\* Math.ceil(Math.sqrt(a)): the least integer c >= 0 with c * c >= a
CeilSqrt(a) ==
    IF IsNaN(a) THEN NaN
    ELSE IF IsInf(a) THEN (IF a.n = 1 THEN a ELSE NaN)
    ELSE IF a.n < 0 THEN NaN
    ELSE IntNum(CeilSqrtFrom(0, a.n, a.d))

-----------------------------------------------------------------------------
(* parseFloat on the text of an input field *)

WhiteSpace == {" "}
Digits == {"0", "1", "2", "3", "4", "5", "6", "7", "8", "9"}
InfinityLiteral == <<"I", "n", "f", "i", "n", "i", "t", "y">>

DigitValue(c) ==
    CASE c = "0" -> 0 [] c = "1" -> 1 [] c = "2" -> 2 [] c = "3" -> 3
      [] c = "4" -> 4 [] c = "5" -> 5 [] c = "6" -> 6 [] c = "7" -> 7
      [] c = "8" -> 8 [] c = "9" -> 9

RECURSIVE TrimStart(_)
TrimStart(s) ==
    IF s # <<>> /\ Head(s) \in WhiteSpace THEN TrimStart(Tail(s)) ELSE s

RECURSIVE DigitsPrefixLen(_)
DigitsPrefixLen(s) ==
    IF s # <<>> /\ Head(s) \in Digits THEN 1 + DigitsPrefixLen(Tail(s)) ELSE 0

RECURSIVE DigitsValue(_)
DigitsValue(s) ==
    IF s = <<>> THEN 0
    ELSE 10 * DigitsValue(SubSeq(s, 1, Len(s) - 1)) + DigitValue(s[Len(s)])

RECURSIVE Pow10(_)
Pow10(e) == IF e = 0 THEN 1 ELSE 10 * Pow10(e - 1)

StartsWith(s, p) == Len(s) >= Len(p) /\ SubSeq(s, 1, Len(p)) = p

\* parseFloat(text): leading white space is skipped, then the longest prefix
\* that is a signed decimal literal (or Infinity) is converted; NaN when there
\* is none.  An exponent part is not modelled (no text of TextInputs has one).
ParseFloat(text) ==
    LET t == TrimStart(text)
        signed == t # <<>> /\ Head(t) \in {"+", "-"}
        sign == IF signed /\ Head(t) = "-" THEN -1 ELSE 1
        u == IF signed THEN Tail(t) ELSE t
        ip == DigitsPrefixLen(u)
        rest == SubSeq(u, ip + 1, Len(u))
        hasDot == rest # <<>> /\ Head(rest) = "."
        fp == IF hasDot THEN DigitsPrefixLen(Tail(rest)) ELSE 0
    IN  IF StartsWith(u, InfinityLiteral) THEN Inf(sign)
        ELSE IF ip + fp = 0 THEN NaN
        ELSE Fin(sign * (DigitsValue(SubSeq(u, 1, ip)) * Pow10(fp)
                         + DigitsValue(SubSeq(rest, 2, fp + 1))),
                 Pow10(fp))

\* Texts a user types into the two fields.
TextInputs ==
    { <<>>,
      <<"a", "b", "c">>,
      <<"0">>,
      <<"-", "3", "0", "0">>,
      <<"3", "0", "0">>,
      <<"9", "0", "0">>,
      <<"4", "5", "0", ".", "5">>,
      <<" ", "9", "0", "0", "l", "m">>,
      InfinityLiteral }

-----------------------------------------------------------------------------
(* The fixture layout computation of FormScreen.handleCalculate *)

\* const area = dimensions.width * dimensions.height
Area(dims) == Mul(dims.width, dims.height)

\* Mutant of IsInvalid: the sign of luxes is not checked.
IsInvalidLuxesUnchecked(lumensValue, luxesValue) ==
    \/ IsNaN(lumensValue)
    \/ IsNaN(luxesValue)
    \/ Le(lumensValue, Zero)

\* the validation of handleCalculate
IsInvalid(lumensValue, luxesValue) ==
    \/ IsNaN(lumensValue)
    \/ IsNaN(luxesValue)
    \/ Le(lumensValue, Zero)
    \/ Le(luxesValue, Zero)

\* Mutant of NumFoci: the quotient is rounded down (Math.floor).
NumFociFloor(dims, lumensValue, luxesValue) ==
    LET q == Div(Mul(luxesValue, Area(dims)), lumensValue)
    IN  IF IsFin(q) THEN IntNum(q.n \div q.d) ELSE q

\* numFoci = Math.ceil(luxesValue * area / lumensValue)
NumFoci(dims, lumensValue, luxesValue) ==
    LET requiredLumens == Mul(luxesValue, Area(dims))
        calculatedFocusCount == Div(requiredLumens, lumensValue)
    IN  Ceil(calculatedFocusCount)

\* numCols = Math.ceil(Math.sqrt(numFoci))
NumCols(numFoci) == CeilSqrt(numFoci)

\* Mutant of NumRows: the quotient is rounded down (Math.floor).
NumRowsFloor(numFoci) ==
    LET q == Div(numFoci, NumCols(numFoci))
    IN  IF IsFin(q) THEN IntNum(q.n \div q.d) ELSE q

\* numRows = Math.ceil(numFoci / numCols)
NumRows(numFoci) == Ceil(Div(numFoci, NumCols(numFoci)))

\* Mutant of CellX: the column offset is subtracted.
CellXMirrored(col, spacingX) ==
    Add(Div(spacingX, Two), Mul(IntNum(-col), spacingX))

\* x = edgeDistanceX + col * spacingX, with edgeDistanceX = spacingX / 2
CellX(col, spacingX) == Add(Div(spacingX, Two), Mul(IntNum(col), spacingX))

\* Mutant of CellY: the half-cell offset from the edge is left out.
CellYNoEdge(row, spacingY) == Mul(IntNum(row), spacingY)

\* y = edgeDistanceY + row * spacingY, with edgeDistanceY = spacingY / 2
CellY(row, spacingY) == Add(Div(spacingY, Two), Mul(IntNum(row), spacingY))

\* if (x <= dimensions.width && y <= dimensions.height)
Included(x, y, dims) == Le(x, dims.width) /\ Le(y, dims.height)

\* for (let col = 0; col < numCols; col++) { ... push({ x, y }) ... }
RECURSIVE ColLoop(_, _, _, _, _, _, _)
ColLoop(row, col, numCols, spacingX, spacingY, dims, acc) ==
    IF Lt(IntNum(col), numCols)
    THEN LET x == CellX(col, spacingX)
             y == CellY(row, spacingY)
         IN  ColLoop(row, col + 1, numCols, spacingX, spacingY, dims,
                     IF Included(x, y, dims)
                     THEN Append(acc, [x |-> x, y |-> y])
                     ELSE acc)
    ELSE acc

\* for (let row = 0; row < numRows; row++) { ... }
RECURSIVE RowLoop(_, _, _, _, _, _, _)
RowLoop(row, numRows, numCols, spacingX, spacingY, dims, acc) ==
    IF Lt(IntNum(row), numRows)
    THEN RowLoop(row + 1, numRows, numCols, spacingX, spacingY, dims,
                 ColLoop(row, 0, numCols, spacingX, spacingY, dims, acc))
    ELSE acc

\* calculatedDistances of handleCalculate
CalculatedDistances(dims, numFoci) ==
    LET numCols == NumCols(numFoci)
        numRows == NumRows(numFoci)
        spacingX == Div(dims.width, numCols)
        spacingY == Div(dims.height, numRows)
    IN  RowLoop(0, numRows, numCols, spacingX, spacingY, dims, <<>>)

\* The grid shape renderFocusGrid(numFoci) lays out; nothing is rendered
\* when numFoci <= 0.
RenderFocusGrid(numFoci) ==
    IF Le(numFoci, Zero)
    THEN [rendered |-> FALSE, numCols |-> Zero, numRows |-> Zero]
    ELSE LET numCols == CeilSqrt(numFoci)
             numRows == Ceil(Div(numFoci, numCols))
         IN  [rendered |-> TRUE, numCols |-> numCols, numRows |-> numRows]

-----------------------------------------------------------------------------
(* FormScreen *)

\* useState(null) of distances: no list yet
NoDistances == [set |-> FALSE, list |-> <<>>]
Distances(list) == [set |-> TRUE, list |-> list]

NoCalc == [done |-> FALSE, lumens |-> NaN, luxes |-> NaN]

\* The dimensions the Form screen may receive as route parameters: whatever
\* numbers the detection service returned.
DimValues == {IntNum(i) : i \in -1 .. MaxDim}
DimensionInputs == [width : DimValues, height : DimValues]

\* The state of a freshly mounted FormScreen.
FormMounted ==
    /\ lumens = <<>>
    /\ luxes = <<>>
    /\ focusCount = Null
    /\ distances = NoDistances
    /\ alertShown = FALSE
    /\ calc = NoCalc

\* onChangeText={setLumens}
SetLumens(text) ==
    /\ screen = "Form"
    /\ ~alertShown
    /\ lumens' = text
    /\ UNCHANGED <<luxes, focusCount, distances, alertShown, calc>>
    /\ UNCHANGED <<homeVars, navVars>>

\* onChangeText={setLuxes}
SetLuxes(text) ==
    /\ screen = "Form"
    /\ ~alertShown
    /\ luxes' = text
    /\ UNCHANGED <<lumens, focusCount, distances, alertShown, calc>>
    /\ UNCHANGED <<homeVars, navVars>>

\* Mutant of HandleCalculate: the positions are computed from the focusCount
\* state of the current render instead of the count just calculated.
HandleCalculateStaleCount ==
    /\ screen = "Form"
    /\ ~alertShown
    /\ LET lumensValue == ParseFloat(lumens)
           luxesValue == ParseFloat(luxes)
       IN  IF IsInvalid(lumensValue, luxesValue)
           THEN /\ alertShown' = TRUE
                /\ UNCHANGED <<focusCount, distances, calc>>
           ELSE /\ focusCount' = NumFoci(dimensions, lumensValue, luxesValue)
                /\ distances' = Distances(CalculatedDistances(dimensions, focusCount))
                /\ calc' = [done |-> TRUE, lumens |-> lumensValue,
                            luxes |-> luxesValue]
                /\ UNCHANGED alertShown
    /\ UNCHANGED <<lumens, luxes>>
    /\ UNCHANGED <<homeVars, navVars>>

\* onPress={handleCalculate}
HandleCalculate ==
    /\ screen = "Form"
    /\ ~alertShown
    /\ LET lumensValue == ParseFloat(lumens)
           luxesValue == ParseFloat(luxes)
       IN  IF IsInvalid(lumensValue, luxesValue)
           THEN /\ alertShown' = TRUE
                /\ UNCHANGED <<focusCount, distances, calc>>
           ELSE LET numFoci == NumFoci(dimensions, lumensValue, luxesValue)
                IN  /\ focusCount' = numFoci
                    /\ distances' = Distances(CalculatedDistances(dimensions, numFoci))
                    /\ calc' = [done |-> TRUE, lumens |-> lumensValue,
                                luxes |-> luxesValue]
                    /\ UNCHANGED alertShown
    /\ UNCHANGED <<lumens, luxes>>
    /\ UNCHANGED <<homeVars, navVars>>

\* The user closes the alert dialog.
DismissAlert ==
    /\ alertShown
    /\ alertShown' = FALSE
    /\ UNCHANGED <<lumens, luxes, focusCount, distances, calc>>
    /\ UNCHANGED <<homeVars, navVars>>

-----------------------------------------------------------------------------
(* HomeScreen *)

NoImage == 0
NoError == "null"
EmptyDimensions == [width |-> Undefined, height |-> Undefined]
NoProcessedImage == [base64 |-> NoImage]

\* response.data of the detection service for an uploaded photo: the annotated
\* image and the dimensions measured in it.  The service is a function of the
\* photo, and different photos give different answers.
ServiceResponse(photo) ==
    [image |-> photo,
     dimensions |-> [width |-> IntNum(photo), height |-> IntNum(photo + 1)]]

\* `data:image/jpeg;base64,${base64Image}`
ProcessedImageUri(base64Image) == [base64 |-> base64Image]

\* The buttons are rendered on the Home screen unless permission was refused.
HomeVisible == screen = "Home" /\ hasCameraPermission # "denied"

Pending == {i \in 1 .. Len(requests) : requests[i].status = "pending"}

\* Camera.requestCameraPermissionsAsync() settles.
PermissionResult(status) ==
    /\ hasCameraPermission = "null"
    /\ hasCameraPermission' = status
    /\ UNCHANGED <<image, processingImage, imageDimensions, error, showProcessed,
                   loading, capturing, requests, photosTaken, processCalls>>
    /\ UNCHANGED <<navVars, formVars>>

\* "Take a Picture" pressed: takePicture runs up to its await.
TakePicture ==
    /\ HomeVisible
    /\ ~showProcessed
    /\ image = NoImage
    /\ capturing < MaxCaptures
    /\ photosTaken + capturing < MaxPhotos
    /\ capturing' = capturing + 1
    /\ UNCHANGED <<hasCameraPermission, image, processingImage, imageDimensions,
                   error, showProcessed, loading, requests, photosTaken,
                   processCalls>>
    /\ UNCHANGED <<navVars, formVars>>

\* takePictureAsync resolves: the rest of the try block of takePicture.
CaptureResolved ==
    /\ capturing > 0
    /\ capturing' = capturing - 1
    /\ photosTaken' = photosTaken + 1
    /\ image' = photosTaken + 1
    /\ showProcessed' = FALSE
    /\ UNCHANGED <<hasCameraPermission, processingImage, imageDimensions, error,
                   loading, requests, processCalls>>
    /\ UNCHANGED <<navVars, formVars>>

\* takePictureAsync rejects: the catch block of takePicture.
CaptureFailed ==
    /\ capturing > 0
    /\ capturing' = capturing - 1
    /\ UNCHANGED <<hasCameraPermission, image, processingImage, imageDimensions,
                   error, showProcessed, loading, requests, photosTaken,
                   processCalls>>
    /\ UNCHANGED <<navVars, formVars>>

\* "Re-take" pressed while the captured photo is shown.
RetakeCaptured ==
    /\ HomeVisible
    /\ ~showProcessed
    /\ image # NoImage
    /\ image' = NoImage
    /\ UNCHANGED <<hasCameraPermission, processingImage, imageDimensions, error,
                   showProcessed, loading, capturing, requests, photosTaken,
                   processCalls>>
    /\ UNCHANGED <<navVars, formVars>>

\* Mutant of ProcessImageBody: the test of image is missing.
ProcessImageUnguarded ==
    /\ loading' = TRUE
    /\ requests' = Append(requests, [photo |-> image, status |-> "pending"])

\* processImage runs up to its await: with a photo, the loading flag is set
\* and the upload starts; without one, nothing happens.
ProcessImageBody ==
    IF image # NoImage
    THEN /\ loading' = TRUE
         /\ requests' = Append(requests, [photo |-> image, status |-> "pending"])
    ELSE UNCHANGED <<loading, requests>>

\* processImage is invoked: by the "Process" button, which is rendered while a
\* captured photo is shown, or in a state that holds no photo.
ProcessImage ==
    /\ HomeVisible
    /\ \/ ~showProcessed /\ image # NoImage
       \/ image = NoImage
    /\ processCalls < MaxRequests
    /\ processCalls' = processCalls + 1
    /\ ProcessImageBody
    /\ UNCHANGED <<hasCameraPermission, image, processingImage, imageDimensions,
                   error, showProcessed, capturing, photosTaken>>
    /\ UNCHANGED <<navVars, formVars>>

\* axios.post resolves: the rest of the try block and the finally block.
RequestSucceeded(i) ==
    /\ i \in Pending
    /\ LET data == ServiceResponse(requests[i].photo)
       IN  /\ processingImage' = ProcessedImageUri(data.image)
           /\ imageDimensions' = data.dimensions
    /\ showProcessed' = TRUE
    /\ error' = NoError
    /\ loading' = FALSE
    /\ requests' = [requests EXCEPT ![i].status = "ok"]
    /\ UNCHANGED <<hasCameraPermission, image, capturing, photosTaken,
                   processCalls>>
    /\ UNCHANGED <<navVars, formVars>>

\* axios.post rejects: the catch block and the finally block.
RequestFailed(i) ==
    /\ i \in Pending
    /\ error' = "Error processing image"
    /\ loading' = FALSE
    /\ requests' = [requests EXCEPT ![i].status = "failed"]
    /\ UNCHANGED <<hasCameraPermission, image, processingImage, imageDimensions,
                   showProcessed, capturing, photosTaken, processCalls>>
    /\ UNCHANGED <<navVars, formVars>>

\* "Re-take" pressed while the processed image is shown.
RetakeProcessed ==
    /\ HomeVisible
    /\ showProcessed
    /\ image' = NoImage
    /\ processingImage' = NoProcessedImage
    /\ imageDimensions' = EmptyDimensions
    /\ showProcessed' = FALSE
    /\ UNCHANGED <<hasCameraPermission, error, loading, capturing, requests,
                   photosTaken, processCalls>>
    /\ UNCHANGED <<navVars, formVars>>

\* "Calculate" pressed: navigation.navigate('Form', { dimensions: imageDimensions })
NavigateToForm ==
    /\ HomeVisible
    /\ showProcessed
    /\ screen' = "Form"
    /\ dimensions' = imageDimensions
    /\ UNCHANGED <<homeVars, formVars>>

\* The back button of the stack navigator: the Form screen is popped.
GoBack ==
    /\ screen = "Form"
    /\ screen' = "Home"
    /\ UNCHANGED dimensions
    /\ UNCHANGED <<homeVars, formVars>>

InitHome ==
    /\ hasCameraPermission = "null"
    /\ image = NoImage
    /\ processingImage = NoProcessedImage
    /\ imageDimensions = EmptyDimensions
    /\ error = NoError
    /\ showProcessed = FALSE
    /\ loading = FALSE
    /\ capturing = 0
    /\ requests = <<>>
    /\ photosTaken = 0
    /\ processCalls = 0
    /\ screen = "Home"
    /\ dimensions = EmptyDimensions
    /\ FormMounted

NextHome ==
    \/ \E status \in {"granted", "denied"} : PermissionResult(status)
    \/ TakePicture
    \/ CaptureResolved
    \/ CaptureFailed
    \/ RetakeCaptured
    \/ ProcessImage
    \/ \E i \in 1 .. MaxRequests : RequestSucceeded(i)
    \/ \E i \in 1 .. MaxRequests : RequestFailed(i)
    \/ RetakeProcessed
    \/ NavigateToForm
    \/ GoBack

SpecHome == InitHome /\ [][NextHome]_vars

-----------------------------------------------------------------------------
(* FormScreen opened with the dimensions of its route parameters *)

\* The Form screen of SpecForm was opened from a Home screen showing the
\* processed photo 1.
InitForm ==
    /\ hasCameraPermission = "granted"
    /\ image = 1
    /\ processingImage = ProcessedImageUri(1)
    /\ dimensions \in DimensionInputs
    /\ imageDimensions = dimensions
    /\ error = NoError
    /\ showProcessed = TRUE
    /\ loading = FALSE
    /\ capturing = 0
    /\ requests = <<[photo |-> 1, status |-> "ok"]>>
    /\ photosTaken = 1
    /\ processCalls = 1
    /\ screen = "Form"
    /\ FormMounted

NextForm ==
    \/ \E text \in TextInputs : SetLumens(text)
    \/ \E text \in TextInputs : SetLuxes(text)
    \/ HandleCalculate
    \/ DismissAlert

SpecForm == InitForm /\ [][NextForm]_vars

-----------------------------------------------------------------------------
(* Properties of the Form screen, checked under SpecForm *)

PositiveReal(a) == IsFin(a) /\ a.n > 0
\* missing, non-numeric, zero or negative
InvalidNumber(a) == IsNaN(a) \/ Le(a, Zero)

ValidDimensions == PositiveReal(dimensions.width) /\ PositiveReal(dimensions.height)

\* The stored plan comes from a Calculate whose four inputs were positive reals.
CalcValid ==
    /\ calc.done
    /\ PositiveReal(calc.lumens)
    /\ PositiveReal(calc.luxes)
    /\ ValidDimensions

\* n * lumens >= luxes * width * height, in integers
Covers(n) ==
    LET w == dimensions.width
        h == dimensions.height
    IN  n * calc.lumens.n * (calc.luxes.d * w.d * h.d)
            >= (calc.luxes.n * w.n * h.n) * calc.lumens.d

\* C1: for positive real width, height, luxes and lumens the stored focusCount
\* is an integer n >= 1 with n * lumens >= luxes * width * height, and
\* (n - 1) * lumens < luxes * width * height when n > 1.
C1_Sufficiency ==
    CalcValid =>
        /\ IsFin(focusCount)
        /\ focusCount.d = 1
        /\ focusCount.n >= 1
        /\ Covers(focusCount.n)
        /\ focusCount.n > 1 => ~Covers(focusCount.n - 1)

\* A count above 1 that the required flux does not fill exactly.
C1_Witness ==
    /\ CalcValid
    /\ IsFin(focusCount)
    /\ focusCount.n > 1
    /\ focusCount # Div(Mul(calc.luxes, Area(dimensions)), calc.lumens)

AnyInputInvalid ==
    \/ InvalidNumber(dimensions.width)
    \/ InvalidNumber(dimensions.height)
    \/ InvalidNumber(ParseFloat(lumens))
    \/ InvalidNumber(ParseFloat(luxes))

\* C2: a Calculate with any of width, height, luxes, lumens missing,
\* non-numeric, zero or negative shows the error and stores neither a
\* fixture count nor a positions list.
C2_InvalidInputRejected ==
    [][(HandleCalculate /\ AnyInputInvalid)
            => (alertShown' /\ UNCHANGED <<focusCount, distances>>)]_vars

\* C3: for valid inputs the positions list is no longer than the fixture count.
C3_LengthAtMostCount ==
    CalcValid => Len(distances.list) <= focusCount.n

\* C4: a Calculate whose lumens or luxes fails validation leaves focusCount
\* and distances as they were.
C4_FailedLeavesResults ==
    [][(HandleCalculate /\ (\/ InvalidNumber(ParseFloat(lumens))
                            \/ InvalidNumber(ParseFloat(luxes))))
            => UNCHANGED <<focusCount, distances>>]_vars

\* A failed Calculate after a successful one: the alert is up, the plan is kept.
C4_Witness ==
    /\ alertShown
    /\ calc.done
    /\ IsFin(focusCount)
    /\ Len(distances.list) > 0

\* C5: with a positive width and height every stored position lies in the
\* rectangle: 0 <= x <= width and 0 <= y <= height.
C5_Containment ==
    (calc.done /\ ValidDimensions) =>
        \A i \in 1 .. Len(distances.list) :
            LET pos == distances.list[i]
            IN  /\ Le(Zero, pos.x)
                /\ Le(pos.x, dimensions.width)
                /\ Le(Zero, pos.y)
                /\ Le(pos.y, dimensions.height)

\* A plan of several rows and columns.
C5_Witness ==
    /\ CalcValid
    /\ Len(distances.list) >= 6
    /\ distances.list[1].x # distances.list[2].x
    /\ distances.list[1].y # distances.list[Len(distances.list)].y

GridShapeOk(n, numCols, numRows) ==
    /\ IsFin(numCols)
    /\ IsFin(numRows)
    /\ numCols.d = 1
    /\ numRows.d = 1
    /\ numCols.n * numRows.n >= n
    /\ (numCols.n - 1) * numRows.n < n

\* C6: for a fixture count n >= 1 the grid of handleCalculate and of
\* renderFocusGrid has numCols * numRows >= n and (numCols - 1) * numRows < n.
C6_GridShape ==
    (IsFin(focusCount) /\ focusCount.n >= 1) =>
        /\ GridShapeOk(focusCount.n, NumCols(focusCount), NumRows(focusCount))
        /\ RenderFocusGrid(focusCount).rendered
        /\ GridShapeOk(focusCount.n, RenderFocusGrid(focusCount).numCols,
                       RenderFocusGrid(focusCount).numRows)

\* A count that is neither a square nor a full grid: more cells than fixtures.
C6_Witness ==
    /\ IsFin(focusCount)
    /\ focusCount.n >= 5
    /\ NumCols(focusCount).n * NumRows(focusCount).n > focusCount.n
    /\ NumRows(focusCount).n < NumCols(focusCount).n

\* The least c >= 1 with c * c >= n, and the rows n fixtures take in c columns.
ExpectedCols(n) == CHOOSE c \in 1 .. n : c * c >= n /\ (c - 1) * (c - 1) < n
ExpectedRows(n) == (n + ExpectedCols(n) - 1) \div ExpectedCols(n)

\* The centre of cell (row, col): ((2 col + 1) width / (2 numCols),
\* (2 row + 1) height / (2 numRows)).
ExpectedPosition(row, col, numRows, numCols) ==
    [x |-> Fin((2 * col + 1) * dimensions.width.n,
               2 * numCols * dimensions.width.d),
     y |-> Fin((2 * row + 1) * dimensions.height.n,
               2 * numRows * dimensions.height.d)]

\* C7: for valid inputs the positions are the cell centres in row-major order;
\* one fixture is placed at (width / 2, height / 2); and width 4, height 3,
\* luxes 300, lumens 900 gives (1, 0.75), (3, 0.75), (1, 2.25), (3, 2.25).
C7_RowMajorCentres ==
    CalcValid =>
        LET n == focusCount.n
            numCols == ExpectedCols(n)
            numRows == ExpectedRows(n)
            list == distances.list
        IN  /\ Len(list) = numRows * numCols
            /\ \A i \in 1 .. Len(list) :
                   list[i] = ExpectedPosition((i - 1) \div numCols,
                                              (i - 1) % numCols, numRows, numCols)
            /\ n = 1 =>
                   list = <<[x |-> Div(dimensions.width, Two),
                             y |-> Div(dimensions.height, Two)]>>
            /\ ( /\ dimensions = [width |-> IntNum(4), height |-> IntNum(3)]
                 /\ calc.luxes = IntNum(300)
                 /\ calc.lumens = IntNum(900) ) =>
                   list = << [x |-> IntNum(1), y |-> Fin(3, 4)],
                             [x |-> IntNum(3), y |-> Fin(3, 4)],
                             [x |-> IntNum(1), y |-> Fin(9, 4)],
                             [x |-> IntNum(3), y |-> Fin(9, 4)] >>

\* The scenario of width 4, height 3, luxes 300, lumens 900 has been calculated.
C7_Witness ==
    /\ CalcValid
    /\ dimensions = [width |-> IntNum(4), height |-> IntNum(3)]
    /\ calc.luxes = IntNum(300)
    /\ calc.lumens = IntNum(900)
    /\ focusCount = IntNum(4)
    /\ Len(distances.list) = 4

\* C8: focusCount and distances are both those of the most recent Calculate
\* that passed validation (none before the first); edits of the text fields
\* and failed Calculates change neither.
C8_PlanFromOneCalculation ==
    IF calc.done
    THEN LET numFoci == NumFoci(dimensions, calc.lumens, calc.luxes)
         IN  /\ focusCount = numFoci
             /\ distances = Distances(CalculatedDistances(dimensions, numFoci))
    ELSE /\ focusCount = Null
         /\ distances = NoDistances

\* A second plan has replaced a first one of another size, and the fields have
\* been edited since.
C8_Witness ==
    /\ CalcValid
    /\ Len(distances.list) > 0
    /\ ParseFloat(lumens) # calc.lumens
    /\ InvalidNumber(ParseFloat(luxes))
    /\ ~alertShown

-----------------------------------------------------------------------------
(* Properties of the Home screen, checked under SpecHome *)

\* C9: processImage invoked without a photo starts no request and changes no
\* state; a request that is started carries the photo held in image.
C9_NoProcessingWithoutPhoto ==
    [][ /\ (processCalls' # processCalls /\ image = NoImage) =>
              UNCHANGED <<requests, loading, processingImage, imageDimensions,
                          showProcessed, error, image>>
        /\ (requests' # requests /\ Len(requests') > Len(requests)) =>
              /\ image # NoImage
              /\ requests' = Append(requests, [photo |-> image, status |-> "pending"]) ]_vars

\* processImage has been invoked once with a photo and once without.
C9_Witness ==
    /\ image = NoImage
    /\ Len(requests) >= 1
    /\ processCalls > Len(requests)

\* C10: while the processed image is shown, image holds a photo and
\* processingImage and imageDimensions are the response for that photo.
C10_ProcessedMatchesPhoto ==
    showProcessed =>
        /\ image # NoImage
        /\ processingImage = ProcessedImageUri(ServiceResponse(image).image)
        /\ imageDimensions = ServiceResponse(image).dimensions

\* C11: loading is true exactly while a request started by processImage has
\* not yet completed.
C11_LoadingTracksRequests ==
    loading <=> (Pending # {})

====
